---- MODULE Spec2Model ----
(***************************************************************************)
(* A model of pyqiwi (src/pyqiwi/__init__.py): the payment-form link       *)
(* encoder generate_form_link, and the Wallet accessors that decode the    *)
(* remote service's JSON answers.                                          *)
(*                                                                         *)
(* Python values are modelled as follows.                                  *)
(*   - An optional value (None or v) is a sequence: <<>> is None, <<v>>    *)
(*     is v.                                                               *)
(*   - A float amount is a fixed-point integer counting thousandths, so    *)
(*     that an amount can carry precision below the cent.                  *)
(*   - A dict is the sequence of its <<key, value>> items in insertion     *)
(*     order; a value is IntV(n) or StrV(s).                               *)
(*   - A JSON key of an answer is Missing, Null or Val(v).                 *)
(***************************************************************************)
EXTENDS Integers, Sequences, FiniteSets, TLC

VARIABLES
    linkCall,     \* the arguments of the generate_form_link call
    linkResult,   \* what that call returned or raised
    proxyy,       \* the module-level variable proxyy
    wallet,       \* the Wallet object's attributes
    remote,       \* what the remote service answers
    transport,    \* the apihelper calls made so far, oldest first
    last          \* the last Wallet / module operation and its outcome

vars == <<linkCall, linkResult, proxyy, wallet, remote, transport, last>>

---------------------------------------------------------------------------
(* Bounds of the model *)

\* blocked lists have up to MaxBlocked entries
MaxBlocked == 2
\* amounts carry 0..MaxExcess thousandths below the cent
MaxExcess == 1
\* the lists of an answer (accounts, rates, transactions) have up to MaxList entries
MaxList == 3

(* Program constants *)

\* the ceiling of one payment
AmountLimit == 99999
\* the only currency of the form link (RUB)
DefaultCurrency == 643
\* thousandths in one unit, and in one cent, of the fixed-point amount
Scale == 1000
CentScale == 10

---------------------------------------------------------------------------
(* Python values *)

None == <<>>
Some(v) == <<v>>

IntV(n) == [t |-> "int", n |-> n]
StrV(s) == [t |-> "str", s |-> s]

\* str(v) of a dict value
Str(v) == IF v.t = "int" THEN ToString(v.n) ELSE v.s

\* the truth value of an optional string: None and "" are false
Truthy(o) == o # None /\ o[1] # ""

\* d[k] = v on a dict
DictSet(d, k, v) ==
    IF \E i \in 1..Len(d) : d[i][1] = k
    THEN [i \in 1..Len(d) |-> IF d[i][1] = k THEN <<k, v>> ELSE d[i]]
    ELSE Append(d, <<k, v>>)

---------------------------------------------------------------------------
(* util: split_float, merge_dicts, sources_list *)

\* the integer part and the cents of the amount, excess precision dropped
split_float(amount) ==
    << <<"amountInteger", IntV(amount \div Scale)>>,
       <<"amountFraction", IntV((amount % Scale) \div CentScale)>> >>

RECURSIVE merge_dicts(_, _)
merge_dicts(a, b) ==
    IF b = <<>> THEN a
    ELSE merge_dicts(DictSet(a, b[1][1], b[1][2]), Tail(b))

\* the key of the i-th (from 0) entry of a list-style parameter
ListKey(name, i) == name \o "[" \o ToString(i) \o "]"

RECURSIVE SourcesFrom(_, _, _, _)
SourcesFrom(sources, params, name, i) ==
    IF i > Len(sources) THEN params
    ELSE SourcesFrom(sources, DictSet(params, ListKey(name, i - 1), StrV(sources[i])),
                     name, i + 1)

sources_list(sources, params, name) == SourcesFrom(sources, params, name, 1)

---------------------------------------------------------------------------
(* urllib.parse: quote_plus, urlencode *)

\* quote_plus on the strings of the model: a space becomes "+", and
\* brackets and quotes are percent-encoded
quote_plus(s) ==
    CASE s = "extra['comment']"     -> "extra%5B%27comment%27%5D"
      [] s = "extra['account']"     -> "extra%5B%27account%27%5D"
      [] s = "extra['accountType']" -> "extra%5B%27accountType%27%5D"
      [] \E i \in 0..(MaxBlocked + 1) : s = ListKey("blocked", i) ->
            "blocked%5B"
              \o ToString(CHOOSE i \in 0..(MaxBlocked + 1) : s = ListKey("blocked", i))
              \o "%5D"
      [] s = "a b"                  -> "a+b"
      [] s = "+7999"                -> "%2B7999"
      [] OTHER                      -> s

\* the items of the query string, in the dict's order
QueryItems(params) ==
    [i \in 1..Len(params) |-> <<quote_plus(params[i][1]), quote_plus(Str(params[i][2]))>>]

RECURSIVE JoinItems(_)
JoinItems(items) ==
    IF items = <<>> THEN ""
    ELSE items[1][1] \o "=" \o items[1][2]
         \o (IF Len(items) > 1 THEN "&" ELSE "") \o JoinItems(Tail(items))

urlencode(params) == JoinItems(QueryItems(params))

---------------------------------------------------------------------------
(* generate_form_link *)

Raised(exc, msg) == [state |-> "raised", exc |-> exc, msg |-> msg]
Returned(v) == [state |-> "returned", value |-> v]
Pending == [state |-> "pending"]

FormUrl(pid) == "https://qiwi.com/payment/form/" \o pid

InitialParams == << <<"currency", IntV(DefaultCurrency)>> >>

\* params after line 508: the currency, then the split amount
AmountParams_NoMerge(amount) == split_float(amount)

AmountParams(amount) == merge_dicts(InitialParams, split_float(amount))

\* a ceiling test that looks at the integer part only
AmountTooLarge_IntegerPart(amount) == amount \div Scale > AmountLimit

\* a ceiling test that also refuses the ceiling itself
AmountTooLarge_Inclusive(amount) == amount >= AmountLimit * Scale

AmountTooLarge(amount) == amount > AmountLimit * Scale

\* the comment attached whatever the provider
CommentStep_AnyPid(params, pid, comment) ==
    IF Truthy(comment)
    THEN DictSet(params, "extra['comment']", StrV(comment[1]))
    ELSE params

CommentStep(params, pid, comment) ==
    IF pid = "99" /\ Truthy(comment)
    THEN DictSet(params, "extra['comment']", StrV(comment[1]))
    ELSE params

AccountStep(params, account) ==
    IF Truthy(account)
    THEN DictSet(params, "extra['account']", StrV(account[1]))
    ELSE params

BlockedAllowed == {"sum", "account", "comment"}

BlockedChecked(blocked) == blocked.t = "list" /\ Len(blocked.v) > 0

\* a validation that looks at the first entry only
BlockedInvalid_FirstOnly(blocked) == blocked.v[1] \notin BlockedAllowed

BlockedInvalid(blocked) ==
    \E i \in 1..Len(blocked.v) : blocked.v[i] \notin BlockedAllowed

\* the two selectors swapped
AccountTypeStep_Swapped(params, pid, account_type) ==
    IF pid = "99999" /\ account_type.t = "int" /\ account_type.n = 0
    THEN DictSet(params, "extra['accountType']", StrV("nickname"))
    ELSE IF pid = "99999" /\ account_type.t = "int" /\ account_type.n = 1
    THEN DictSet(params, "extra['accountType']", StrV("phone"))
    ELSE IF pid = "99999" /\ account_type.t = "str"
    THEN DictSet(params, "extra['accountType']", StrV(account_type.s))
    ELSE params

AccountTypeStep(params, pid, account_type) ==
    IF pid = "99999" /\ account_type.t = "int" /\ account_type.n = 0
    THEN DictSet(params, "extra['accountType']", StrV("phone"))
    ELSE IF pid = "99999" /\ account_type.t = "int" /\ account_type.n = 1
    THEN DictSet(params, "extra['accountType']", StrV("nickname"))
    ELSE IF pid = "99999" /\ account_type.t = "str"
    THEN DictSet(params, "extra['accountType']", StrV(account_type.s))
    ELSE params

\* the link: its text, and the items of its query string
Link(url, params) ==
    [url |-> url \o "?" \o urlencode(params), base |-> url, query |-> QueryItems(params)]

generate_form_link(pid, account, amount, comment, blocked, account_type) ==
    LET url == FormUrl(pid)
        p1  == AmountParams(amount)
    IN  IF AmountTooLarge(amount)
        THEN Raised("ValueError", "AmountTooLarge")
        ELSE LET p2 == CommentStep(p1, pid, comment)
                 p3 == AccountStep(p2, account)
             IN  IF BlockedChecked(blocked) /\ BlockedInvalid(blocked)
                 THEN Raised("ValueError", "InvalidBlockedField")
                 ELSE LET p4 == IF BlockedChecked(blocked)
                                THEN sources_list(blocked.v, p3, "blocked")
                                ELSE p3
                          p5 == AccountTypeStep(p4, pid, account_type)
                      IN  Returned(Link(url, p5))

---------------------------------------------------------------------------
(* The inputs of generate_form_link *)

Pids == {"99", "99999", "1"}
Comments == {None, Some(""), Some("hi"), Some("a b")}
RecipientAccounts == {None, Some(""), Some("+7999")}
BlockedEntries == BlockedAllowed \cup {"other"}
SeqsUpTo(S, n) == UNION {[1..k -> S] : k \in 0..n}
BlockedLists ==
    {[t |-> "none"]} \cup {[t |-> "list", v |-> s] : s \in SeqsUpTo(BlockedEntries, MaxBlocked)}
AccountTypes ==
    {[t |-> "none"], [t |-> "int", n |-> 0], [t |-> "int", n |-> 1], [t |-> "int", n |-> 2],
     [t |-> "str", s |-> "email"]}
\* amounts in cents: near zero, the spec's 100.50, and around the ceiling
CentAmounts ==
    {0, 1, 99, 100, 10050,
     AmountLimit * 100 - 1, AmountLimit * 100, AmountLimit * 100 + 1, (AmountLimit + 1) * 100}
Amounts == {c * CentScale + e : c \in CentAmounts, e \in 0..MaxExcess}

LinkCalls ==
    [pid : Pids, account : RecipientAccounts, amount : Amounts, comment : Comments,
     blocked : BlockedLists, account_type : AccountTypes]

---------------------------------------------------------------------------
(* The state before any Wallet exists *)

\* line 14: proxyy = {}
ProxyyInitial == "{}"

WalletIdle ==
    /\ proxyy = ProxyyInitial
    /\ wallet = [constructed |-> FALSE]
    /\ transport = <<>>
    /\ last = [op |-> "none"]

LinkIdle ==
    /\ linkCall = [k |-> "none"]
    /\ linkResult = Pending

InitLink ==
    /\ linkCall \in LinkCalls
    /\ linkResult = Pending
    /\ WalletIdle
    /\ remote = [k |-> "none"]

GenerateFormLink ==
    /\ linkResult = Pending
    /\ linkResult' = generate_form_link(linkCall.pid, linkCall.account, linkCall.amount,
                                        linkCall.comment, linkCall.blocked,
                                        linkCall.account_type)
    /\ UNCHANGED <<linkCall, proxyy, wallet, remote, transport, last>>

NextLink == GenerateFormLink

SpecLink == InitLink /\ [][NextLink]_vars

---------------------------------------------------------------------------
(* JSON answers of the remote service *)

Missing == [k |-> "missing"]
Null == [k |-> "null"]
Val(v) == [k |-> "val", v |-> v]

\* dict.get(key): None for a missing key and for a null
JsonGet(field) == IF field.k = "val" THEN Some(field.v) ELSE None

\* the balance of an account: none, without an amount, zero, or an amount
\* (in hundredths)
BalanceJsons ==
    {Null, Val([amount |-> Missing]), Val([amount |-> Val(0)]),
     Val([amount |-> Val(1250)]), Val([amount |-> Val(70)])}
AccountJsons ==
    {[alias |-> "qw_wallet", currency |-> c, balance |-> b, unknown |-> TRUE] :
        c \in {643, 840}, b \in BalanceJsons}
OfferJsons ==
    {[alias |-> a, currency |-> 398, balance |-> Missing, unknown |-> TRUE] :
        a \in {"qw_wallet_kzt", "qw_wallet_usd"}}
RateJsons ==
    {[from |-> "643", to |-> t, rate |-> r] : t \in {"840", "978"}, r \in {7050}}
    \cup {Null}
DateStrings ==
    {"2020-01-02T03:04:05+03:00", "2021-12-31T23:59:59+00:00", "02.01.2020 03:04"}
TxnJsons ==
    {[txnId |-> 11, date |-> "2020-01-02T03:04:05+03:00", status |-> "SUCCESS", unknown |-> TRUE],
     [txnId |-> 12, date |-> "2021-12-31T23:59:59+00:00", status |-> "WAITING", unknown |-> TRUE],
     [txnId |-> 13, date |-> "02.01.2020 03:04", status |-> "ERROR", unknown |-> TRUE]}
HistoryJsons ==
    [data : SeqsUpTo(TxnJsons, MaxList - 1),
     nextTxnDate : {Missing, Null} \cup {Val(d) : d \in DateStrings},
     nextTxnId : {Missing, Null, Val(0), Val(12)}]

DefaultRemote ==
    [accounts |-> << [alias |-> "qw_wallet", currency |-> 643,
                      balance |-> Val([amount |-> Val(1250)]), unknown |-> TRUE] >>,
     offer     |-> <<>>,
     rates     |-> <<>>,
     history   |-> [data |-> <<>>, nextTxnDate |-> Missing, nextTxnId |-> Missing],
     contractId |-> 7911,
     detect    |-> None,
     payment   |-> [id |-> "pay-1", unknown |-> TRUE],
     commission |-> [ranges |-> <<>>, unknown |-> TRUE]]

\* the answers of the model: one endpoint's answer varies at a time
DecodeRemotes ==
    {[DefaultRemote EXCEPT !.accounts = l] : l \in SeqsUpTo(AccountJsons, MaxList)}
    \cup {[DefaultRemote EXCEPT !.offer = l] : l \in SeqsUpTo(OfferJsons, MaxList)}
    \cup {[DefaultRemote EXCEPT !.rates = l] : l \in SeqsUpTo(RateJsons, MaxList)}
    \cup {[DefaultRemote EXCEPT !.history = h] : h \in HistoryJsons}

---------------------------------------------------------------------------
(* types: the decoders *)

\* JsonDeserializable.decode_date: the fixed format yyyy-MM-ddTHH:mm:ss+hh:mm
\* to an instant with its offset (minutes); any other string is malformed
DateWellFormed(str) ==
    str \in {"2020-01-02T03:04:05+03:00", "2021-12-31T23:59:59+00:00"}

decode_date(str) ==
    CASE str = "2020-01-02T03:04:05+03:00" ->
            [year |-> 2020, month |-> 1, day |-> 2, hour |-> 3, minute |-> 4, second |-> 5,
             utcoffset |-> 180]
      [] str = "2021-12-31T23:59:59+00:00" ->
            [year |-> 2021, month |-> 12, day |-> 31, hour |-> 23, minute |-> 59,
             second |-> 59, utcoffset |-> 0]

\* Account.de_json: the balance stays the answer's mapping (or None)
AccountDeJson(json) ==
    [alias    |-> json.alias,
     currency |-> json.currency,
     balance  |-> IF json.balance.k = "val"
                  THEN Some([amount |-> JsonGet(json.balance.v.amount)])
                  ELSE None]

\* Rate.de_json: None for a null
RateDeJson(json) ==
    IF json = Null THEN None
    ELSE Some([currency_from |-> json.from, currency_to |-> json.to, rate |-> json.rate])

\* Transaction.de_json: the date goes through decode_date
TransactionDecodes(json) == DateWellFormed(json.date)

TransactionDeJson(json) ==
    [txn_id |-> json.txnId, date |-> decode_date(json.date), status |-> json.status]

---------------------------------------------------------------------------
(* apihelper: the calls the transport sees *)

\* one call: the apihelper function, its proxy argument, its other arguments
Call(fn, proxy, args) == [fn |-> fn, proxy |-> proxy, args |-> args]

---------------------------------------------------------------------------
(* Wallet: accounts, cross_rates, offered_accounts, balance, history *)

RECURSIVE AccountsLoop(_, _)
AccountsLoop(json, accounts) ==
    IF json = <<>> THEN accounts
    ELSE AccountsLoop(Tail(json), Append(accounts, AccountDeJson(Head(json))))

WalletAccounts(result_json) == AccountsLoop(result_json, <<>>)

RECURSIVE RatesLoop(_, _)
RatesLoop(json, rates) ==
    IF json = <<>> THEN rates
    ELSE RatesLoop(Tail(json), Append(rates, RateDeJson(Head(json))))

WalletCrossRates(result_json) == RatesLoop(result_json, <<>>)

RECURSIVE OfferedLoop(_, _)
OfferedLoop(json, accounts) ==
    IF json = <<>> THEN accounts
    ELSE OfferedLoop(Tail(json), Append(accounts, AccountDeJson(Head(json))))

WalletOfferedAccounts(result_json) == OfferedLoop(result_json, <<>>)

\* the truth value of account.balance and of account.balance.get('amount')
BalanceUsable(account, currency) ==
    /\ account.currency = currency
    /\ account.balance # None
    /\ account.balance[1].amount # None
    /\ account.balance[1].amount[1] # 0

\* a scan that stops at the first account of the currency
RECURSIVE BalanceScan_FirstOfCurrency(_, _)
BalanceScan_FirstOfCurrency(accounts, currency) ==
    IF accounts = <<>>
    THEN Raised("ValueError", "NoUsableBalance")
    ELSE IF Head(accounts).currency = currency
    THEN IF BalanceUsable(Head(accounts), currency)
         THEN Returned(Head(accounts).balance[1].amount[1])
         ELSE Raised("ValueError", "NoUsableBalance")
    ELSE BalanceScan_FirstOfCurrency(Tail(accounts), currency)

RECURSIVE BalanceScan(_, _)
BalanceScan(accounts, currency) ==
    IF accounts = <<>>
    THEN Raised("ValueError", "NoUsableBalance")
    ELSE IF BalanceUsable(Head(accounts), currency)
    THEN Returned(Head(accounts).balance[1].amount[1])
    ELSE BalanceScan(Tail(accounts), currency)

\* a loop that puts each transaction in front of the earlier ones
RECURSIVE TransactionsLoop_Prepend(_, _)
TransactionsLoop_Prepend(json, transactions) ==
    IF json = <<>> THEN Returned(transactions)
    ELSE IF ~TransactionDecodes(Head(json))
    THEN Raised("MalformedDate", Head(json).date)
    ELSE TransactionsLoop_Prepend(Tail(json), <<TransactionDeJson(Head(json))>> \o transactions)

RECURSIVE TransactionsLoop(_, _)
TransactionsLoop(json, transactions) ==
    IF json = <<>> THEN Returned(transactions)
    ELSE IF ~TransactionDecodes(Head(json))
    THEN Raised("MalformedDate", Head(json).date)
    ELSE TransactionsLoop(Tail(json), Append(transactions, TransactionDeJson(Head(json))))

\* ntd: None unless the answer has a nextTxnDate that is not None
HistoryNextTxnDate(result_json) ==
    IF JsonGet(result_json.nextTxnDate) # None
    THEN IF DateWellFormed(JsonGet(result_json.nextTxnDate)[1])
         THEN Returned(Some(decode_date(JsonGet(result_json.nextTxnDate)[1])))
         ELSE Raised("MalformedDate", JsonGet(result_json.nextTxnDate)[1])
    ELSE Returned(None)

\* a cursor id that treats a zero as no id
HistoryNextTxnId_ZeroAsNone(result_json) ==
    IF JsonGet(result_json.nextTxnId) = Some(0) THEN None
    ELSE JsonGet(result_json.nextTxnId)

HistoryNextTxnId(result_json) == JsonGet(result_json.nextTxnId)

WalletHistory(result_json) ==
    LET transactions == TransactionsLoop(result_json.data, <<>>)
        ntd          == HistoryNextTxnDate(result_json)
    IN  IF transactions.state = "raised" THEN transactions
        ELSE IF ntd.state = "raised" THEN ntd
        ELSE Returned([transactions  |-> transactions.value,
                       next_txn_date |-> ntd.value,
                       next_txn_id   |-> HistoryNextTxnId(result_json)])

---------------------------------------------------------------------------
(* Wallet.__init__ *)

\* strings that the code takes apart are sequences of characters
Tokens == {"token-a"}
Proxies == {"None", "{'https': 'p1'}", "{'https': 'p2'}"}
Numbers ==
    {[t |-> "none"], [t |-> "str", s |-> <<"+", "7", "9", "1">>],
     [t |-> "str", s |-> <<"8", "9", "1">>]}

RECURSIVE Digits(_)
Digits(n) == IF n < 10 THEN <<ToString(n)>> ELSE Append(Digits(n \div 10), ToString(n % 10))

\* lines 430-433: number.replace('+', ''), a leading 8 replaced by 7
NumberAttr(number) ==
    IF number.t # "str" THEN [t |-> "unset"]
    ELSE LET stripped == SelectSeq(number.s, LAMBDA c : c # "+")
         IN  [t |-> "str",
              s |-> IF stripped # <<>> /\ stripped[1] = "8"
                    THEN <<"7">> \o Tail(stripped)
                    ELSE stripped]

\* the object after __init__
WalletAfterInit(token, number, contract_info, auth_info, user_info, proxy, contractId) ==
    [constructed |-> TRUE,
     token  |-> token,
     number |-> IF contract_info THEN [t |-> "str", s |-> Digits(contractId)]
                ELSE NumberAttr(number),
     auth_info_enabled |-> auth_info,
     contract_info_enabled |-> contract_info,
     user_info_enabled |-> user_info,
     proxy  |-> proxy,
     headers |-> [Accept |-> "application/json", ContentType |-> "application/json",
                  Authorization |-> "Bearer " \o token]]

\* line 439 assigns proxyy inside __init__ without a global statement: the
\* name is local to the method and the module-level proxyy keeps its value
ProxyyAfterInit(old, proxy) == old

WalletInit(token, number, contract_info, auth_info, user_info, proxy) ==
    /\ wallet' = WalletAfterInit(token, number, contract_info, auth_info, user_info, proxy,
                                 remote.contractId)
    /\ proxyy' = ProxyyAfterInit(proxyy, proxy)
    /\ transport' = IF contract_info
                    THEN <<Call("person_profile", proxy,
                                <<token, auth_info, contract_info, user_info>>)>>
                    ELSE <<>>
    /\ last' = [op |-> "init", res |-> Returned(None)]
    /\ UNCHANGED <<linkCall, linkResult, remote>>

---------------------------------------------------------------------------
(* Wallet methods *)

Accounts ==
    /\ wallet.constructed
    /\ transport' = <<Call("funding_sources", wallet.proxy, <<wallet.token>>)>>
    /\ last' = [op |-> "accounts", res |-> Returned(WalletAccounts(remote.accounts))]
    /\ UNCHANGED <<linkCall, linkResult, proxyy, wallet, remote>>

CrossRates ==
    /\ wallet.constructed
    /\ transport' = <<Call("cross_rates", wallet.proxy, <<wallet.token>>)>>
    /\ last' = [op |-> "cross_rates", res |-> Returned(WalletCrossRates(remote.rates))]
    /\ UNCHANGED <<linkCall, linkResult, proxyy, wallet, remote>>

OfferedAccounts ==
    /\ wallet.constructed
    /\ wallet.number.t = "str"
    /\ transport' = <<Call("get_accounts_offer", wallet.proxy,
                           <<wallet.token, wallet.number.s>>)>>
    /\ last' = [op |-> "offered_accounts",
                res |-> Returned(WalletOfferedAccounts(remote.offer))]
    /\ UNCHANGED <<linkCall, linkResult, proxyy, wallet, remote>>

Balance(currency) ==
    /\ wallet.constructed
    /\ transport' = <<Call("funding_sources", wallet.proxy, <<wallet.token>>)>>
    /\ last' = [op |-> "balance", currency |-> currency,
                res |-> BalanceScan(WalletAccounts(remote.accounts), currency)]
    /\ UNCHANGED <<linkCall, linkResult, proxyy, wallet, remote>>

History(rows) ==
    /\ wallet.constructed
    /\ wallet.number.t = "str"
    /\ transport' = <<Call("payment_history", wallet.proxy,
                           <<wallet.token, wallet.number.s, rows>>)>>
    /\ last' = [op |-> "history", res |-> WalletHistory(remote.history)]
    /\ UNCHANGED <<linkCall, linkResult, proxyy, wallet, remote>>

Currencies == {643, 840}
DefaultRows == 20

InitDecode ==
    /\ LinkIdle
    /\ proxyy = ProxyyInitial
    /\ remote \in DecodeRemotes
    /\ wallet = WalletAfterInit("token-a", [t |-> "none"], TRUE, TRUE, TRUE, "None",
                                remote.contractId)
    /\ transport = <<Call("person_profile", "None", <<"token-a", TRUE, TRUE, TRUE>>)>>
    /\ last = [op |-> "init", res |-> Returned(None)]

NextDecode ==
    \/ Accounts
    \/ CrossRates
    \/ OfferedAccounts
    \/ \E currency \in Currencies : Balance(currency)
    \/ History(DefaultRows)

SpecDecode == InitDecode /\ [][NextDecode]_vars

---------------------------------------------------------------------------
(* Module-level get_commission and detect_mobile; Wallet.send, Wallet.mobile *)

GetCommission(token, pid) ==
    /\ transport' = <<Call("local_commission", proxyy, <<token, pid>>)>>
    /\ last' = [op |-> "get_commission", res |-> Returned([ranges |-> remote.commission.ranges])]
    /\ UNCHANGED <<linkCall, linkResult, proxyy, wallet, remote>>

\* detect_mobile: the provider id apihelper.detect answers, or None
DetectMobile(phone) ==
    /\ transport' = <<Call("detect", proxyy, <<phone>>)>>
    /\ last' = [op |-> "detect_mobile", res |-> Returned(remote.detect)]
    /\ UNCHANGED <<linkCall, linkResult, proxyy, wallet, remote>>

\* Payment.de_json of the answer
PaymentDeJson(json) == [transaction_id |-> json.id]

SendCall(pid, recipient, amount, comment) ==
    Call("payments", wallet.proxy, <<wallet.token, pid, amount, recipient, comment, None>>)

Send(pid, recipient, amount, comment) ==
    /\ wallet.constructed
    /\ transport' = <<SendCall(pid, recipient, amount, comment)>>
    /\ last' = [op |-> "send", res |-> Returned(PaymentDeJson(remote.payment))]
    /\ UNCHANGED <<linkCall, linkResult, proxyy, wallet, remote>>

\* line 425: account[1:]
MobileRecipient(account) == IF account = <<>> THEN <<>> ELSE Tail(account)

\* a test for None in place of the truth value: an empty provider id is sent
MobileSends_NotNoneTest(pid, account, amount) ==
    IF pid # None
    THEN <<SendCall(pid[1], MobileRecipient(account), amount, None)>>
    ELSE <<>>

\* lines 424-425: the send calls of mobile, none unless pid is truthy
MobileSends(pid, account, amount) ==
    IF Truthy(pid)
    THEN <<SendCall(pid[1], MobileRecipient(account), amount, None)>>
    ELSE <<>>

Mobile(account, amount) ==
    /\ wallet.constructed
    /\ LET pid   == remote.detect
           sends == MobileSends(pid, account, amount)
       IN  /\ transport' = <<Call("detect", proxyy, <<account>>)>> \o sends
           /\ last' = [op |-> "mobile", account |-> account, amount |-> amount,
                       res |-> IF sends # <<>>
                               THEN Returned(PaymentDeJson(remote.payment))
                               ELSE Raised("ValueError", "NoProvider")]
    /\ UNCHANGED <<linkCall, linkResult, proxyy, wallet, remote>>

Phones == {<<"7", "9", "1">>, <<"8", "9", "2">>}
SendAmounts == {100, 25050}
DetectAnswers == {None, Some(""), Some("1"), Some("2")}
SessionRemotes == {[DefaultRemote EXCEPT !.detect = d] : d \in DetectAnswers}

Init ==
    /\ LinkIdle
    /\ WalletIdle
    /\ remote \in SessionRemotes

Next ==
    \/ \E token \in Tokens, number \in Numbers, contract_info \in BOOLEAN,
          proxy \in Proxies :
            WalletInit(token, number, contract_info, TRUE, TRUE, proxy)
    \/ \E token \in Tokens, pid \in Pids : GetCommission(token, pid)
    \/ \E phone \in Phones : DetectMobile(phone)
    \/ \E pid \in Pids, recipient \in Phones, amount \in SendAmounts :
            Send(pid, recipient, amount, None)
    \/ \E account \in Phones, amount \in SendAmounts : Mobile(account, amount)

Spec == Init /\ [][Next]_vars

---------------------------------------------------------------------------
(* Properties of generate_form_link, checked under SpecLink *)

LinkDone == linkResult.state # "pending"
LinkReturned == linkResult.state = "returned"
LinkRaised(msg) ==
    /\ linkResult.state = "raised"
    /\ linkResult.exc = "ValueError"
    /\ linkResult.msg = msg

\* the query items of the returned link whose (decoded) key is k
QueryOf(k) ==
    {i \in 1..Len(linkResult.value.query) : linkResult.value.query[i][1] = quote_plus(k)}
QueryHas(k) == QueryOf(k) # {}
QueryValue(k) == linkResult.value.query[CHOOSE i \in QueryOf(k) : TRUE][2]

HasInvalidEntry(b) ==
    b.t = "list" /\ \E i \in 1..Len(b.v) : b.v[i] \notin {"sum", "account", "comment"}
WithinLimit == linkCall.amount <= AmountLimit * Scale

\* the number a decimal numeral of the model stands for
ParseDomain == (0..99) \cup {a \div Scale : a \in Amounts}
ParseInt(s) == CHOOSE n \in ParseDomain : ToString(n) = s

\* C1: for every amount greater than 99999 generate_form_link raises the
\* AmountTooLarge ValueError, whatever the other arguments are (an invalid
\* blocked entry included), and returns no URL.
C1_AmountTooLarge ==
    (LinkDone /\ linkCall.amount > AmountLimit * Scale) => LinkRaised("AmountTooLarge")

C1_Witness ==
    /\ LinkRaised("AmountTooLarge")
    /\ linkCall.amount = AmountLimit * Scale + 1
    /\ HasInvalidEntry(linkCall.blocked)

\* C2: for an amount within the limit, generate_form_link raises the
\* InvalidBlockedField ValueError for every blocked list holding a value
\* outside {sum, account, comment}, and returns a link for every list drawn
\* from that set; the link then carries the entries as the list-style
\* parameters blocked[0], blocked[1], ... in the list's order.
C2_BlockedFields ==
    (LinkDone /\ WithinLimit /\ linkCall.blocked.t = "list") =>
        IF HasInvalidEntry(linkCall.blocked)
        THEN LinkRaised("InvalidBlockedField")
        ELSE /\ LinkReturned
             /\ \A i \in 1..Len(linkCall.blocked.v) :
                    /\ Cardinality(QueryOf(ListKey("blocked", i - 1))) = 1
                    /\ QueryValue(ListKey("blocked", i - 1)) = linkCall.blocked.v[i]
             /\ ~QueryHas(ListKey("blocked", Len(linkCall.blocked.v)))

C2_Witness ==
    /\ LinkRaised("InvalidBlockedField")
    /\ Len(linkCall.blocked.v) = 2
    /\ linkCall.blocked.v[1] = "sum"
    /\ linkCall.blocked.v[2] = "other"

C2_WitnessAttached ==
    /\ LinkReturned
    /\ linkCall.blocked.t = "list"
    /\ linkCall.blocked.v = <<"comment", "sum">>
    /\ QueryValue("blocked[0]") = "comment"
    /\ QueryValue("blocked[1]") = "sum"

\* C3: for every amount a with 0 < a <= 99999 (the blocked list holding no
\* invalid entry) generate_form_link returns a link whose integer-part and
\* cents parameters sum, in cents, to a * 100 rounded toward zero (the cents
\* parameter being below 100).
C3_AmountSplit ==
    (LinkDone /\ linkCall.amount > 0 /\ WithinLimit
            /\ ~HasInvalidEntry(linkCall.blocked)) =>
        /\ LinkReturned
        /\ Cardinality(QueryOf("amountInteger")) = 1
        /\ Cardinality(QueryOf("amountFraction")) = 1
        /\ ParseInt(QueryValue("amountFraction")) < 100
        /\ ParseInt(QueryValue("amountInteger")) * 100 + ParseInt(QueryValue("amountFraction"))
               = linkCall.amount \div CentScale

\* the ceiling itself, 99999.00, is accepted
C3_Witness ==
    /\ LinkReturned
    /\ linkCall.amount = AmountLimit * Scale
    /\ QueryValue("amountInteger") = "99999"
    /\ QueryValue("amountFraction") = "0"

\* 100.501 is sent as 100 and 50 cents
C3_WitnessExcess ==
    /\ LinkReturned
    /\ linkCall.amount = 100501
    /\ QueryValue("amountInteger") = "100"
    /\ QueryValue("amountFraction") = "50"

\* C4: the returned link carries the field extra['comment'] exactly when
\* the provider id is "99" and a non-empty comment is given, and the field
\* is then the comment; for any other provider id, or without a comment,
\* the link has no comment field.
C4_CommentOnlyForTransfer ==
    LinkReturned =>
        /\ QueryHas("extra['comment']")
              <=> (linkCall.pid = "99" /\ linkCall.comment \notin {None, Some("")})
        /\ QueryHas("extra['comment']") =>
              /\ Cardinality(QueryOf("extra['comment']")) = 1
              /\ QueryValue("extra['comment']") = quote_plus(linkCall.comment[1])

C4_Witness ==
    /\ LinkReturned
    /\ linkCall.pid = "99"
    /\ linkCall.comment = Some("a b")
    /\ QueryValue("extra['comment']") = "a+b"

C4_WitnessDropped ==
    /\ LinkReturned
    /\ linkCall.pid = "99999"
    /\ linkCall.comment = Some("hi")
    /\ ~QueryHas("extra['comment']")

\* C5: with the provider id "99999" the returned link carries
\* extra['accountType'] = "phone" for account_type 0, "nickname" for 1, and
\* the string itself for a string; for every other provider id the link has
\* no accountType field, whatever account_type is.
C5_AccountType ==
    LinkReturned =>
        IF linkCall.pid = "99999"
        THEN /\ (linkCall.account_type.t = "int" /\ linkCall.account_type.n = 0)
                    => QueryValue("extra['accountType']") = "phone"
             /\ (linkCall.account_type.t = "int" /\ linkCall.account_type.n = 1)
                    => QueryValue("extra['accountType']") = "nickname"
             /\ linkCall.account_type.t = "str"
                    => QueryValue("extra['accountType']") = linkCall.account_type.s
        ELSE ~QueryHas("extra['accountType']")

C5_Witness ==
    /\ LinkReturned
    /\ linkCall.pid = "99999"
    /\ linkCall.account_type.t = "int"
    /\ linkCall.account_type.n = 1
    /\ QueryValue("extra['accountType']") = "nickname"

C5_WitnessOtherPid ==
    /\ LinkReturned
    /\ linkCall.pid = "99"
    /\ linkCall.account_type.t = "str"
    /\ ~QueryHas("extra['accountType']")

\* C6: every link generate_form_link returns carries the parameter currency
\* exactly once, with the value 643, whatever the arguments are.
C6_CurrencyFixed ==
    LinkReturned =>
        /\ Cardinality(QueryOf("currency")) = 1
        /\ QueryValue("currency") = "643"

C6_Witness ==
    /\ LinkReturned
    /\ linkCall.blocked.t = "list"
    /\ Len(linkCall.blocked.v) = MaxBlocked
    /\ linkCall.pid = "99999"
    /\ linkCall.account_type.t = "str"
    /\ QueryValue("currency") = "643"

---------------------------------------------------------------------------
(* Properties of the Wallet accessors, checked under SpecDecode *)

\* the account of the answer carries a balance with a nonzero amount in
\* the currency
Qualifies(json, currency) ==
    /\ json.currency = currency
    /\ json.balance.k = "val"
    /\ json.balance.v.amount.k = "val"
    /\ json.balance.v.amount.v # 0

QualifyingAt(currency) ==
    {i \in 1..Len(remote.accounts) : Qualifies(remote.accounts[i], currency)}

FirstQualifying(currency) ==
    CHOOSE i \in QualifyingAt(currency) : \A j \in QualifyingAt(currency) : i <= j

\* C7: Wallet.balance(currency) returns the amount of the first account, in
\* the answer's order, whose currency is the requested one and which has a
\* balance with a nonzero amount, passing over earlier accounts of that
\* currency that lack a balance or an amount; if no account qualifies it
\* raises the NoUsableBalance ValueError, and it never returns zero.
C7_BalanceFirstUsable ==
    last.op = "balance" =>
        /\ IF QualifyingAt(last.currency) # {}
           THEN /\ last.res.state = "returned"
                /\ last.res.value =
                       remote.accounts[FirstQualifying(last.currency)].balance.v.amount.v
           ELSE /\ last.res.state = "raised"
                /\ last.res.exc = "ValueError"
                /\ last.res.msg = "NoUsableBalance"
        /\ last.res.state = "returned" => last.res.value # 0

\* an account of the currency without a balance, then one with a zero
\* amount, are passed over for the third
C7_Witness ==
    /\ last.op = "balance"
    /\ last.currency = 643
    /\ Len(remote.accounts) = 3
    /\ remote.accounts[1].currency = 643
    /\ remote.accounts[1].balance = Null
    /\ remote.accounts[2].currency = 643
    /\ remote.accounts[2].balance = Val([amount |-> Val(0)])
    /\ remote.accounts[3].currency = 643
    /\ last.res.state = "returned"
    /\ last.res.value = 70

C7_WitnessRaised ==
    /\ last.op = "balance"
    /\ last.currency = 643
    /\ Len(remote.accounts) = 2
    /\ remote.accounts[1].currency = 643
    /\ remote.accounts[1].balance = Val([amount |-> Val(0)])
    /\ remote.accounts[2].currency = 840
    /\ remote.accounts[2].balance = Val([amount |-> Val(1250)])
    /\ last.res.state = "raised"

\* C8: a list-valued answer (accounts, cross rates, offered accounts, the
\* transactions of a history page) is decoded entry by entry: the result is as
\* long as the answer's list and its i-th element is the decoding of the
\* answer's i-th entry, for every length, zero included.
C8_ListsDecodedInOrder ==
    /\ last.op = "accounts" =>
          /\ Len(last.res.value) = Len(remote.accounts)
          /\ \A i \in 1..Len(remote.accounts) :
                last.res.value[i] = AccountDeJson(remote.accounts[i])
    /\ last.op = "offered_accounts" =>
          /\ Len(last.res.value) = Len(remote.offer)
          /\ \A i \in 1..Len(remote.offer) :
                last.res.value[i] = AccountDeJson(remote.offer[i])
    /\ last.op = "cross_rates" =>
          /\ Len(last.res.value) = Len(remote.rates)
          /\ \A i \in 1..Len(remote.rates) :
                last.res.value[i] = RateDeJson(remote.rates[i])
    /\ (last.op = "history" /\ last.res.state = "returned") =>
          /\ Len(last.res.value.transactions) = Len(remote.history.data)
          /\ \A i \in 1..Len(remote.history.data) :
                last.res.value.transactions[i] = TransactionDeJson(remote.history.data[i])

\* the spec's scenario: two transactions keep their order
C8_Witness ==
    /\ last.op = "history"
    /\ last.res.state = "returned"
    /\ Len(remote.history.data) = 2
    /\ remote.history.data[1].txnId = 12
    /\ remote.history.data[2].txnId = 11
    /\ last.res.value.transactions[1].txn_id = 12
    /\ last.res.value.transactions[2].txn_id = 11

C8_WitnessAccounts ==
    /\ last.op = "accounts"
    /\ Len(remote.accounts) = MaxList
    /\ remote.accounts[1] # remote.accounts[2]
    /\ Len(last.res.value) = MaxList

C8_WitnessEmpty ==
    /\ last.op = "cross_rates"
    /\ remote.rates = <<>>
    /\ last.res.value = <<>>

\* the history page decodes: its transactions' dates are well formed
HistoryDataDecodes ==
    \A i \in 1..Len(remote.history.data) :
        remote.history.data[i].date
            \in {"2020-01-02T03:04:05+03:00", "2021-12-31T23:59:59+00:00"}

\* C10: Wallet.history returns the cursor with explicit absence: next_txn_date
\* is None when the answer's nextTxnDate is missing or null (and history then
\* returns whenever the transactions decode) and is otherwise that value
\* decoded by decode_date; next_txn_id is the answer's nextTxnId unchanged,
\* None when the key is missing, and a present zero stays zero.
C10_HistoryCursor ==
    last.op = "history" =>
        /\ (HistoryDataDecodes /\ remote.history.nextTxnDate.k \in {"missing", "null"})
              => /\ last.res.state = "returned"
                 /\ last.res.value.next_txn_date = None
        /\ (last.res.state = "returned" /\ remote.history.nextTxnDate.k = "val")
              => last.res.value.next_txn_date
                    = Some(decode_date(remote.history.nextTxnDate.v))
        /\ (last.res.state = "returned" /\ remote.history.nextTxnId.k = "missing")
              => last.res.value.next_txn_id = None
        /\ (last.res.state = "returned" /\ remote.history.nextTxnId.k = "val")
              => /\ last.res.value.next_txn_id = Some(remote.history.nextTxnId.v)
                 /\ last.res.value.next_txn_id # None

\* a null date and a zero id: the date is absent, the id is a present zero
C10_Witness ==
    /\ last.op = "history"
    /\ last.res.state = "returned"
    /\ remote.history.nextTxnDate = Null
    /\ remote.history.nextTxnId = Val(0)
    /\ last.res.value.next_txn_date = None
    /\ last.res.value.next_txn_id = Some(0)

C10_WitnessDate ==
    /\ last.op = "history"
    /\ last.res.state = "returned"
    /\ remote.history.nextTxnDate = Val("2020-01-02T03:04:05+03:00")
    /\ remote.history.nextTxnId = Missing
    /\ last.res.value.next_txn_date[1].utcoffset = 180
    /\ last.res.value.next_txn_id = None

---------------------------------------------------------------------------
(* Properties of the module-level proxy, checked under Spec *)

\* C9: after a Wallet is constructed with proxy p the module-level proxyy
\* holds p, and a later module-level get_commission or detect_mobile call
\* passes p to the transport.
C9_ProxyPublished ==
    wallet.constructed =>
        /\ proxyy = wallet.proxy
        /\ last.op \in {"get_commission", "detect_mobile"} => transport[1].proxy = wallet.proxy

---------------------------------------------------------------------------
(* Properties of Wallet.mobile, checked under Spec *)

\* the apihelper.payments calls the last operation made
PaymentCalls == SelectSeq(transport, LAMBDA c : c.fn = "payments")

\* C11: Wallet.mobile submits no payment when detection yields no provider
\* id (None, or an empty one): it raises ValueError and makes no payments
\* call; when a provider id is detected it makes exactly one payments call,
\* with that provider id, the account without its first character, and the
\* given amount.
C11_MobileSendsOnlyWithProvider ==
    last.op = "mobile" =>
        IF remote.detect = None \/ remote.detect = Some("")
        THEN /\ last.res.state = "raised"
             /\ last.res.exc = "ValueError"
             /\ PaymentCalls = <<>>
        ELSE /\ last.res.state = "returned"
             /\ Len(PaymentCalls) = 1
             /\ PaymentCalls[1].args[2] = remote.detect[1]
             /\ PaymentCalls[1].args[3] = last.amount
             /\ PaymentCalls[1].args[4] = SubSeq(last.account, 2, Len(last.account))

C11_Witness ==
    /\ last.op = "mobile"
    /\ remote.detect = Some("2")
    /\ last.account = <<"8", "9", "2">>
    /\ last.amount = 25050
    /\ Len(PaymentCalls) = 1
    /\ PaymentCalls[1].args[2] = "2"
    /\ PaymentCalls[1].args[4] = <<"9", "2">>

C11_WitnessNoProvider ==
    /\ last.op = "mobile"
    /\ remote.detect = None
    /\ last.res.state = "raised"
    /\ Len(transport) = 1
    /\ transport[1].fn = "detect"

====
